---- MODULE Spec2Model ----
(***************************************************************************)
(* LFPy simulation drivers (LFPy/run_simulation.py) as a state machine.    *)
(*                                                                         *)
(* Times are integer multiples of one tick.  2-D numpy arrays are records  *)
(* [rows, data] where data is the sequence of columns; a column is the     *)
(* sequence of its row entries, and the empty column <<>> stands for a     *)
(* column of np.empty storage that was never assigned.  Arrays and python  *)
(* lists that the code shares by reference live on heaps (heap, lists) and *)
(* are named by their index there; 0 is "attribute absent".                *)
(***************************************************************************)
EXTENDS Integers, Sequences, FiniteSets, TLC

(* ---------------------------------------------------------------- bounds *)
MaxRuns == 2
MaxTstop == 3
MaxDt == 2
MaxSecs == 3
MaxNseg == 2
MaxSyn == 3
MaxSynCalls == 2

(* ------------------------------------------------------- fixed universes *)
Electrodes == {1, 2}
Segs == 1..2
Contacts == 1..2
totnsegs == Cardinality(Segs)

(* ------------------------------------------------------------ arithmetic *)
\* python int(a / b) for b > 0: truncation toward zero
IntDiv(a, b) == IF a >= 0 THEN a \div b ELSE 0 - ((0 - a) \div b)

\* python int(a / b + 1) for b > 0: the sum is formed first, then truncated
IntDivPlusOne(a, b) == IntDiv(a + b, b)

Max(a, b) == IF a >= b THEN a ELSE b

RECURSIVE SumTo(_, _)
SumTo(f, n) == IF n = 0 THEN 0 ELSE f[n] + SumTo(f, n - 1)

(* ---------------------------------------------------------------- arrays *)
\* np.empty((rows, cols)): storage allocated, no column assigned
Empty(rows, cols) == [rows |-> rows, data |-> [k \in 1..Max(cols, 0) |-> <<>>]]

NCols(a) == Len(a.data)

\* a column holds values once it was assigned from fully initialised operands
Defined(col) == col # <<>>

\* elementwise a += b on arrays of equal shape; garbage stays garbage
AddArr(a, b) ==
    [rows |-> a.rows,
     data |-> [k \in 1..NCols(a) |->
                 IF Defined(a.data[k]) /\ Defined(b.data[k])
                 THEN [r \in 1..a.rows |-> a.data[k][r] + b.data[k][r]]
                 ELSE <<>>]]

SameShape(a, b) == a.rows = b.rows /\ NCols(a) = NCols(b)

\* np.eye(n): column i is the unit current at segment i
Eye(n) == [rows |-> n, data |-> [i \in 1..n |-> [r \in 1..n |-> IF r = i THEN 1 ELSE 0]]]

\* the value an attribute that holds no array is given in the model
NoArr == [rows |-> 0, data |-> <<>>]

\* np.dot(G, X) for a matrix X given by its columns
MatMul(G, X) ==
    [rows |-> G.rows,
     data |-> [k \in 1..NCols(X) |->
                 [r \in 1..G.rows |->
                    SumTo([i \in 1..NCols(G) |-> G.data[i][r] * X.data[k][i]],
                          NCols(G))]]]

(* --------------------------------------------------------- collaborators *)
\* the electrode's linear forward model: potential at contact r per unit
\* current in segment i (RecExtElectrode geometry, fixed per electrode)
ForwardMatrix(e) ==
    [rows |-> Cardinality(Contacts),
     data |-> [i \in Segs |-> [r \in Contacts |-> e + 2 * (r - 1) + (i - 1)]]]

\* coefficient matrices the caller supplies directly (dotprodcoeffs)
AdHocMatrix(k) ==
    [rows |-> Cardinality(Contacts),
     data |-> [i \in Segs |-> [r \in Contacts |-> 5 + k + r * i]]]

\* seg.i_membrane of the k-th segment enumerated from cell.allseclist when
\* the engine is at time t
IMembrane(t, k) == 2 * t + k

\* cell.area as filled by _collect_geometry_neuron (um2)
CellArea == [i \in Segs |-> 100 * i]

\* calc_lfp(cell=cell): the potential the electrode computes from cell.imem,
\* one column per column of cell.imem; it is what el.LFP holds after the call
CalcLfp(e, imem) == MatMul(ForwardMatrix(e), imem)

(* ----------------------------------------------------------------- state *)
VARIABLES
    cfg,        \* the cell's timing, the environment and the run options
    pc,         \* position of the driver
    runs,       \* driver calls made so far
    args,       \* electrode and dotprodcoeffs arguments of the current call
    loc,        \* local variables of _run_simulation_with_electrode
    nrn,        \* the NEURON engine: neuron.h.t, neuron.h.dt, CVode state
    cell,       \* attributes of the cell object the driver reads and writes
    usercoeffs, \* the list object the caller passes as dotprodcoeffs
    elec,       \* the electrode objects
    heap,       \* result arrays, by reference
    lists,      \* python lists of result arrays (CellLFP), by reference
    h5,         \* the h5py container
    log,        \* deposits, advances and file operations, in program order
    geo,        \* _collect_geometry_neuron: the morphology and its locals
    syn,        \* the cell's synapse registry: Synapse objects, cell.synapses,
                \* cell.synidx, cell.sptimeslist, cell.netstimlist
    obs         \* what an observer of the call recorded: the objects as they
                \* were when the driver was called, the series each call merged
                \* onto each electrode, and whether a read or deposit raised

vars == <<cfg, pc, runs, args, loc, nrn, cell, usercoeffs, elec, heap, lists, h5, log, geo, syn, obs>>

(* ------------------------------------------------------- bounded inputs *)
Timings ==
    {[tstartms |-> a, tstopms |-> b, timeres_NEURON |-> d] :
        a \in -1..1, b \in -1..MaxTstop, d \in 1..MaxDt}

DefaultTiming == [tstartms |-> 0, tstopms |-> 2, timeres_NEURON |-> 1]

NoPerCell == [e \in Electrodes |-> FALSE]

MkCfg(tm, mem, file, h5py, vdt, nlive, perCell) ==
    [tstartms |-> tm.tstartms, tstopms |-> tm.tstopms,
     timeres_NEURON |-> tm.timeres_NEURON,
     to_memory |-> mem, to_file |-> file, h5py |-> h5py, variable_dt |-> vdt,
     nlive |-> nlive, perCellLFP |-> perCell, hasImem |-> FALSE]

\* the configurations explored: each family varies one group of inputs
Configs ==
    {MkCfg(tm, TRUE, f, TRUE, FALSE, totnsegs, NoPerCell) :
        tm \in Timings, f \in BOOLEAN}
    \cup {MkCfg(DefaultTiming, m, f, h, v, totnsegs, NoPerCell) :
        m \in BOOLEAN, f \in BOOLEAN, h \in BOOLEAN, v \in BOOLEAN}
    \cup {MkCfg(DefaultTiming, TRUE, FALSE, TRUE, FALSE, totnsegs, pcl) :
        pcl \in [Electrodes -> BOOLEAN]}
    \cup {MkCfg(DefaultTiming, TRUE, f, TRUE, FALSE, n, NoPerCell) :
        n \in 1..(totnsegs + 1), f \in BOOLEAN}
    \cup {[MkCfg(DefaultTiming, TRUE, f, TRUE, FALSE, totnsegs, NoPerCell)
               EXCEPT !.hasImem = TRUE] : f \in BOOLEAN}

\* the <<electrode, dotprodcoeffs>> arguments explored: each is absent, one
\* object passed bare, or a list of two
RunArgs ==
    {<<"none", "none">>, <<"single", "none">>, <<"list", "none">>,
     <<"none", "single">>, <<"list", "single">>, <<"list", "list">>}

\* type(electrode) == list ... else [electrode]  (lines 106-109)
ElectrodeList(a) ==
    CASE a = "single" -> <<1>>
      [] a = "list" -> <<1, 2>>
      [] OTHER -> <<>>

LocInit ==
    [to_file |-> FALSE, dotprodcoeffs |-> <<>>, aliased |-> FALSE,
     lendotrodcoeffs0 |-> 0, electrodes |-> <<>>, electrodesNone |-> TRUE,
     k |-> 0, restoreLFP |-> FALSE, restoreCellLFP |-> FALSE,
     LFPcopy |-> 0, CellLFP |-> 0, cellTvec |-> "none",
     cellImemBound |-> FALSE, cellImem |-> NoArr,
     tstep |-> 0, imem |-> <<>>, electrodesLFP |-> <<>>, j |-> 0,
     variable_dt |-> FALSE]

\* the morphology _collect_geometry_neuron has not been called on
GeoIdle ==
    [pc |-> "idle", secs |-> <<>>, totnsegs |-> 0, s |-> 0, counter |-> 0,
     areavec |-> <<>>, xstartvec |-> <<>>,
     cell |-> [area |-> <<>>, xstart |-> <<>>]]

\* a cell no Synapse was created on
SynIdle ==
    [objs |-> <<>>, synapses |-> <<>>, synidx |-> <<>>, sptimeslist |-> <<>>,
     netstimlist |-> <<>>, ncalls |-> 0,
     called |-> 0, callargs |-> <<>>, before |-> <<>>]

\* cell.imem as an earlier simulation recorded it: segments x time steps
RecordedImem ==
    [rows |-> totnsegs, data |-> [k \in 1..2 |-> [i \in Segs |-> 10 * k + i]]]

Init ==
    /\ cfg \in Configs
    /\ geo = GeoIdle
    /\ syn = SynIdle
    /\ pc = "idle"
    /\ runs = 0
    /\ args = [driver |-> "none", electrode |-> "none", dotprodcoeffs |-> "none"]
    /\ loc = LocInit
    /\ nrn = [t |-> 0, dt |-> 0, cvode_active |-> FALSE, atol_set |-> FALSE]
    /\ cell = [tvec |-> "tvec", hasImem |-> cfg.hasImem,
               imem |-> IF cfg.hasImem THEN RecordedImem ELSE NoArr,
               hasResults |-> FALSE, dotprodresults |-> <<>>]
    /\ usercoeffs = <<AdHocMatrix(1), AdHocMatrix(2)>>
    /\ elec = [e \in Electrodes |->
                 [LFP |-> 0, CellLFP |-> 0, perCellLFP |-> cfg.perCellLFP[e],
                  hasCoeff |-> FALSE, electrodecoeff |-> NoArr]]
    /\ heap = <<>>
    /\ lists = <<>>
    /\ h5 = [open |-> FALSE, names |-> <<>>, datasets |-> <<>>, opens |-> 0, closes |-> 0]
    /\ log = <<>>
    /\ obs = [elec |-> elec, heap |-> heap, lists |-> lists, cell |-> cell,
              usercoeffs |-> usercoeffs,
              merged |-> [e \in Electrodes |-> <<>>], raised |-> FALSE]

\* the caller's objects as they are when a driver is called
Snapshot ==
    [obs EXCEPT !.elec = elec, !.heap = heap, !.lists = lists, !.cell = cell,
                !.usercoeffs = usercoeffs, !.raised = FALSE]

(* ------------------------------------------ _run_simulation_with_electrode *)
\* an entry of the log: a deposit, an advance, or an operation on the file
Ev(ev, sink, j, col, t, fresh) ==
    [ev |-> ev, sink |-> sink, j |-> j, col |-> col, t |-> t, fresh |-> fresh]

\* the log entry of el.calc_lfp(cell=cell) (line 131): the electrode, the
\* currents cell.imem held, and the number of matrices built before it
ProbeEv(e, imem, built) ==
    [ev |-> "calc_lfp", sink |-> "electrode", j |-> e, col |-> built,
     t |-> 0, fresh |-> TRUE, imem |-> imem]

\* a current matrix of ones in every entry
OnesCurrents(n) == [rows |-> n, data |-> [i \in 1..n |-> [r \in 1..n |-> 1]]]

\* cell.imem = np.eye(cell.totnsegs) (line 118): what the probe feeds calc_lfp
ProbeCurrents(n) == Eye(n)

\* to_file left as requested whatever the import did
ToFileIgnoringImport(to_file, h5py) == to_file

\* lines 79-84: to_file after the attempt to import h5py
ToFileAfterImport(to_file, h5py) == to_file /\ h5py

\* lines 70-122: the h5py import, the normalisation of the two arguments and
\* the set-up of the probing phase
Call(el, dp) ==
    /\ pc \in {"idle", "done"}
    /\ runs < MaxRuns
    /\ runs' = runs + 1
    /\ args' = [driver |-> "with_electrode", electrode |-> el, dotprodcoeffs |-> dp]
    /\ log' = <<>>
    /\ LET coeffs0 == CASE dp = "single" -> <<AdHocMatrix(3)>>
                        [] dp = "list" -> usercoeffs
                        [] OTHER -> <<>>
           base == [LocInit EXCEPT
                      !.to_file = ToFileAfterImport(cfg.to_file, cfg.h5py),
                      !.variable_dt = cfg.variable_dt,
                      !.dotprodcoeffs = coeffs0,
                      !.aliased = (dp = "list"),
                      !.lendotrodcoeffs0 = Len(coeffs0)]
       IN IF el # "none"
          THEN /\ loc' = [base EXCEPT
                            !.electrodes = ElectrodeList(el),
                            !.electrodesNone = FALSE,
                            !.cellTvec = cell.tvec,
                            !.cellImemBound = cell.hasImem,
                            !.cellImem = IF cell.hasImem THEN cell.imem ELSE NoArr,
                            !.k = 1]
               /\ cell' = [cell EXCEPT !.hasImem = TRUE, !.imem = ProbeCurrents(totnsegs),
                                       !.tvec = "probe_tvec"]
               /\ pc' = "probe"
          ELSE /\ loc' = base
               /\ cell' = cell
               /\ pc' = "integrator"
    /\ obs' = Snapshot
    /\ UNCHANGED <<cfg, nrn, usercoeffs, elec, heap, lists, h5, geo, syn>>

\* restoreLFP / restoreCellLFP after the hasattr tests of lines 124-130
RestoreLFPFlag(flag, has) == flag \/ has
RestoreCellLFPFlag(flag, has) == flag \/ has

\* lines 123-142: one pass of the probing loop, for electrodes[k]
Probe ==
    /\ pc = "probe"
    /\ loc.k <= Len(loc.electrodes)
    /\ LET e == loc.electrodes[loc.k]
           hasLFP == elec[e].LFP # 0
           hasCell == elec[e].CellLFP # 0
           LFPcopy == IF hasLFP THEN elec[e].LFP ELSE loc.LFPcopy
           CellLFP == IF hasCell THEN elec[e].CellLFP ELSE loc.CellLFP
           restoreLFP == RestoreLFPFlag(loc.restoreLFP, hasLFP)
           restoreCellLFP == RestoreCellLFPFlag(loc.restoreCellLFP, hasCell)
           out == CalcLfp(e, cell.imem)
       IN /\ loc' = [loc EXCEPT
                       !.LFPcopy = LFPcopy, !.CellLFP = CellLFP,
                       !.restoreLFP = restoreLFP,
                       !.restoreCellLFP = restoreCellLFP,
                       !.dotprodcoeffs = Append(@, out),
                       !.k = @ + 1]
          /\ usercoeffs' = IF loc.aliased THEN Append(usercoeffs, out)
                           ELSE usercoeffs
          /\ elec' = [elec EXCEPT
                        ![e].LFP = IF restoreLFP THEN LFPcopy ELSE 0,
                        ![e].CellLFP = IF restoreCellLFP THEN CellLFP ELSE 0]
          /\ log' = Append(log, ProbeEv(e, cell.imem, Len(loc.dotprodcoeffs)))
    /\ UNCHANGED <<cfg, pc, runs, args, nrn, cell, heap, lists, h5, obs, geo, syn>>

\* a probing phase that leaves the cell as probing set it
LeaveAsProbed(saved, current) == current

\* cell.tvec = cellTvec; cell.imem = cellImem (lines 145-147): the cell gets
\* the saved object back in place of the one installed for probing
PutBack(saved, current) == saved

\* lines 144-149: the cell's tvec and imem are put back
ProbeDone ==
    /\ pc = "probe"
    /\ loc.k > Len(loc.electrodes)
    /\ cell' = [cell EXCEPT
                  !.tvec = PutBack(loc.cellTvec, @),
                  !.hasImem = loc.cellImemBound,
                  !.imem = IF loc.cellImemBound THEN PutBack(loc.cellImem, @)
                           ELSE NoArr]
    /\ pc' = "integrator"
    /\ UNCHANGED <<cfg, runs, args, loc, nrn, usercoeffs, elec, heap, lists, h5, log, obs, geo, syn>>

\* cell.timeres_NEURON <= 1E-8 (line 161), a tick being 1E-3 ms
TimeresBelowLimit(dt) == dt * 100000 <= 1

\* which integrator lines 161-165 switch on
CvodeActiveWithElectrode(variable_dt, dt) == TimeresBelowLimit(dt)

\* lines 154-191: the engine is initialised and set to tstartms
InitIntegrator ==
    /\ pc = "integrator"
    /\ LET active == CvodeActiveWithElectrode(loc.variable_dt, cfg.timeres_NEURON)
       IN nrn' = [t |-> cfg.tstartms, dt |-> cfg.timeres_NEURON,
                  cvode_active |-> active, atol_set |-> active]
    /\ loc' = [loc EXCEPT !.tstep = 0]
    /\ pc' = "allocate"
    /\ UNCHANGED <<cfg, runs, args, cell, usercoeffs, elec, heap, lists, h5, log, obs, geo, syn>>

RECURSIVE Digits(_)
\* the decimal digits of i >= 0, most significant first
Digits(i) == IF i < 10 THEN <<i>> ELSE Append(Digits(i \div 10), i % 10)

\* '{:03d}'.format(i): the digits of i, zero-padded on the left to three
Format03d(i) ==
    LET d == Digits(i)
    IN IF Len(d) >= 3 THEN d ELSE [k \in 1..(3 - Len(d)) |-> 0] \o d

\* 'electrode{:03d}'.format(i) (lines 209, 233, 262)
DatasetName(i) == <<"electrode">> \o Format03d(i)

\* columns of an in-memory result series (line 200)
MemCols(tstop, dt) == IntDiv(tstop, dt) + 1

\* columns of a file dataset (line 210)
FileCols(tstop, dt) == IntDivPlusOne(tstop, dt)

RECURSIVE AllocAll(_, _, _)
\* electrodesLFP.append(np.empty(...)) for each matrix (lines 198-200)
AllocAll(h, coeffs, cols) ==
    IF coeffs = <<>> THEN h
    ELSE AllocAll(Append(h, Empty(Head(coeffs).rows, cols)), Tail(coeffs), cols)

\* lines 193-211: the current buffer, the result series and the container
Allocate ==
    /\ pc = "allocate"
    /\ LET n == Len(loc.dotprodcoeffs)
           mcols == MemCols(cfg.tstopms, cfg.timeres_NEURON)
           fcols == FileCols(cfg.tstopms, cfg.timeres_NEURON)
           memRaises == cfg.to_memory /\ n > 0 /\ mcols < 0
           fileRaises == loc.to_file /\ n > 0 /\ fcols < 0
           buf == [i \in 1..totnsegs |->
                     [init |-> FALSE, val |-> 0, readAt |-> 0, scaled |-> 0]]
       IN /\ loc' = [loc EXCEPT
                       !.imem = buf,
                       !.electrodesLFP =
                           IF cfg.to_memory /\ ~memRaises
                           THEN [q \in 1..n |-> Len(heap) + q] ELSE <<>>]
          /\ heap' = IF cfg.to_memory /\ ~memRaises
                     THEN AllocAll(heap, loc.dotprodcoeffs, mcols) ELSE heap
          /\ IF loc.to_file /\ ~memRaises
             THEN /\ h5' = [open |-> TRUE,
                            names |->
                                IF fileRaises THEN <<>>
                                ELSE [q \in 1..n |-> DatasetName(q - 1)],
                            datasets |->
                                IF fileRaises THEN <<>>
                                ELSE [q \in 1..n |->
                                        Empty(loc.dotprodcoeffs[q].rows, fcols)],
                            opens |-> h5.opens + 1, closes |-> h5.closes]
                  /\ log' = Append(log, Ev("open", "file", 0, 0, nrn.t, TRUE))
             ELSE UNCHANGED <<h5, log>>
          /\ pc' = IF memRaises \/ fileRaises THEN "aborted" ELSE "loop"
    /\ UNCHANGED <<cfg, runs, args, nrn, cell, usercoeffs, elec, lists, obs, geo, syn>>

\* area = cell.area * 1E-2 (line 215)
AreaFactor(i) == (CellArea[i] * 1) \div 100

\* lines 219-223 / 249-253: imem[i] = seg.i_membrane for the segments that
\* cell.allseclist enumerates; entries beyond them keep what they held
ReadCurrents(imem, t, nlive) ==
    [i \in 1..totnsegs |->
        IF i <= nlive
        THEN [init |-> TRUE, val |-> IMembrane(t, i), readAt |-> t, scaled |-> 0]
        ELSE imem[i]]

\* imem[i] with i = totnsegs raises IndexError
ReadRaises(nlive) == nlive > totnsegs

\* imem *= area (lines 225, 255), in place on the whole buffer
ScaleCurrents(imem) ==
    [i \in 1..totnsegs |->
        IF imem[i].init
        THEN [imem[i] EXCEPT !.val = @ * AreaFactor(i), !.scaled = @ + 1]
        ELSE [imem[i] EXCEPT !.scaled = @ + 1]]

\* every entry was read at engine time t and scaled once since
FreshAt(imem, t) ==
    \A i \in 1..totnsegs :
        imem[i].init /\ imem[i].readAt = t /\ imem[i].scaled = 1

\* np.dot(coeffs, imem): one column of potential
DotColumn(coeffs, imem) ==
    IF \A i \in 1..totnsegs : imem[i].init
    THEN [r \in 1..coeffs.rows |->
            SumTo([i \in 1..totnsegs |-> coeffs.data[i][r] * imem[i].val],
                  totnsegs)]
    ELSE <<>>

\* the column index the memory path writes at step tstep (lines 229, 259)
MemColumn(tstep) == tstep

\* the column index the file path writes at step tstep (lines 233-234, 262-263)
FileColumn(tstep) == tstep

\* electrodesLFP[j][:, col] = np.dot(coeffs, imem) for every j
DepositMem(h, refs, coeffs, imem, col) ==
    [x \in 1..Len(h) |->
        IF \E q \in 1..Len(refs) : refs[q] = x
        THEN LET q == CHOOSE q \in 1..Len(refs) : refs[q] = x
             IN [h[x] EXCEPT !.data[col + 1] = DotColumn(coeffs[q], imem)]
        ELSE h[x]]

\* el_LFP_file['electrode{:03d}'.format(j)][:, col] = np.dot(coeffs, imem)
DepositFile(f, coeffs, imem, col) ==
    [q \in 1..Len(f.datasets) |->
        IF \E j \in 0..(Len(coeffs) - 1) : DatasetName(j) = f.names[q]
        THEN LET j == CHOOSE j \in 0..(Len(coeffs) - 1) : DatasetName(j) = f.names[q]
             IN [f.datasets[q] EXCEPT !.data[col + 1] = DotColumn(coeffs[j + 1], imem)]
        ELSE f.datasets[q]]

DepositLog(sink, n, col, t, fresh) ==
    [q \in 1..n |-> Ev("deposit", sink, q - 1, col, t, fresh)]

\* lines 227-234 / 257-263: the deposits of one sample, memory first, then
\* file; raised = an index was out of range (IndexError)
Deposit(imem, t) ==
    LET n == Len(loc.dotprodcoeffs)
        mcol == MemColumn(loc.tstep)
        fcol == FileColumn(loc.tstep)
        memOOB == n > 0 /\ mcol >= NCols(heap[loc.electrodesLFP[1]])
        memRaises == cfg.to_memory /\ memOOB
        memDone == cfg.to_memory /\ ~memOOB
        fileOOB == n > 0 /\ fcol >= NCols(h5.datasets[1])
        fileTried == loc.to_file /\ ~memRaises
        fileDone == fileTried /\ ~fileOOB
        fresh == FreshAt(imem, t)
    IN [raised |-> memRaises \/ (fileTried /\ fileOOB),
        heap |-> IF memDone
                 THEN DepositMem(heap, loc.electrodesLFP, loc.dotprodcoeffs, imem, mcol)
                 ELSE heap,
        h5 |-> IF fileDone
               THEN [h5 EXCEPT !.datasets =
                        DepositFile(h5, loc.dotprodcoeffs, imem, fcol)]
               ELSE h5,
        log |-> log \o (IF memDone THEN DepositLog("mem", n, mcol, t, fresh) ELSE <<>>)
                    \o (IF fileDone THEN DepositLog("file", n, fcol, t, fresh) ELSE <<>>)]

\* the times neuron.h.fadvance() can leave the engine at
AdvanceTo(t) ==
    IF nrn.cvode_active THEN {t + d : d \in 1..Max(nrn.dt, MaxDt)}
    ELSE {t + nrn.dt}

\* a loop that also runs when t has just reached tstop
LoopConditionInclusive(t, tstop) == t <= tstop

\* while neuron.h.t < cell.tstopms (lines 59, 217)
LoopCondition(t, tstop) == t < tstop

\* lines 217-245: one pass of the stepping loop
LoopIter ==
    /\ pc = "loop"
    /\ LoopCondition(nrn.t, cfg.tstopms)
    /\ IF nrn.t >= 0 /\ ReadRaises(cfg.nlive)
       THEN /\ loc' = [loc EXCEPT !.imem = ReadCurrents(@, nrn.t, totnsegs)]
            /\ pc' = "aborted"
            /\ obs' = [obs EXCEPT !.raised = TRUE]
            /\ UNCHANGED <<nrn, heap, h5, log>>
       ELSE IF nrn.t >= 0
       THEN LET imem == ScaleCurrents(ReadCurrents(loc.imem, nrn.t, cfg.nlive))
                d == Deposit(imem, nrn.t)
            IN /\ heap' = d.heap
               /\ h5' = d.h5
               /\ obs' = [obs EXCEPT !.raised = d.raised]
               /\ IF d.raised
                  THEN /\ loc' = [loc EXCEPT !.imem = imem]
                       /\ pc' = "aborted"
                       /\ log' = d.log
                       /\ UNCHANGED nrn
                  ELSE /\ loc' = [loc EXCEPT !.imem = imem, !.tstep = @ + 1]
                       /\ pc' = "loop"
                       /\ \E tn \in AdvanceTo(nrn.t) :
                            /\ nrn' = [nrn EXCEPT !.t = tn]
                            /\ log' = Append(d.log, Ev("advance", "engine", 0, 0, tn, TRUE))
       ELSE /\ \E tn \in AdvanceTo(nrn.t) :
                 /\ nrn' = [nrn EXCEPT !.t = tn]
                 /\ log' = Append(log, Ev("advance", "engine", 0, 0, tn, TRUE))
            /\ UNCHANGED <<loc, pc, heap, h5, obs>>
    /\ UNCHANGED <<cfg, runs, args, cell, usercoeffs, elec, lists, geo, syn>>

\* lines 247-266: the sample after the last fadvance(); whatever is raised
\* inside the try block is swallowed by "except: pass"
FinalSample ==
    /\ pc = "loop"
    /\ ~LoopCondition(nrn.t, cfg.tstopms)
    /\ IF ReadRaises(cfg.nlive)
       THEN /\ loc' = [loc EXCEPT !.imem = ReadCurrents(@, nrn.t, totnsegs)]
            /\ obs' = [obs EXCEPT !.raised = TRUE]
            /\ UNCHANGED <<heap, h5, log>>
       ELSE LET imem == ScaleCurrents(ReadCurrents(loc.imem, nrn.t, cfg.nlive))
                d == Deposit(imem, nrn.t)
            IN /\ loc' = [loc EXCEPT !.imem = imem]
               /\ heap' = d.heap
               /\ h5' = d.h5
               /\ log' = d.log
               /\ obs' = [obs EXCEPT !.raised = d.raised]
    /\ pc' = "finalize"
    /\ UNCHANGED <<cfg, runs, args, nrn, cell, usercoeffs, elec, lists, geo, syn>>

\* line 272: cell.dotprodresults = electrodesLFP[:lendotrodcoeffs0]
DotprodResults(electrodesLFP, m) == SubSeq(electrodesLFP, 1, m)

\* lines 268-274: the ad-hoc results are handed to the cell
Finalize ==
    /\ pc = "finalize"
    /\ IF cfg.to_memory
       THEN /\ cell' = [cell EXCEPT
                          !.hasResults = TRUE,
                          !.dotprodresults =
                              DotprodResults(loc.electrodesLFP, loc.lendotrodcoeffs0)]
            /\ pc' = IF ~loc.electrodesNone /\ Len(loc.electrodesLFP) > 0
                     THEN "merge" ELSE "close"
       ELSE /\ cell' = cell
            /\ pc' = "close"
    /\ loc' = [loc EXCEPT !.j = 0]
    /\ UNCHANGED <<cfg, runs, args, nrn, usercoeffs, elec, heap, lists, h5, log, obs, geo, syn>>

\* the electrode that result series j is merged onto (lines 277-286)
MergeTarget(j, m) == j - m

\* the electrode whose CellLFP attribute line 283 tests
CellLFPProbe(j, m) == j

\* lines 275-286: one pass of the merging loop, for result series j
MergeStep ==
    /\ pc = "merge"
    /\ loc.j < Len(loc.electrodesLFP)
    /\ LET j == loc.j
           m == loc.lendotrodcoeffs0
           n == Len(loc.electrodes)
           nxt == IF j + 1 < Len(loc.electrodesLFP) THEN "merge" ELSE "close"
       IN IF j < m
          THEN /\ pc' = nxt
               /\ UNCHANGED <<elec, heap, lists, obs>>
          ELSE LET ti == MergeTarget(j, m)
                   pi == CellLFPProbe(j, m)
                   e == loc.electrodes[ti + 1]
                   LFP == loc.electrodesLFP[j + 1]
                   had == elec[e].LFP # 0
                   shapeErr == had /\ ~SameShape(heap[elec[e].LFP], heap[LFP])
                   heap1 == IF had /\ ~shapeErr
                            THEN [heap EXCEPT ![elec[e].LFP] = AddArr(@, heap[LFP])]
                            ELSE heap
                   lfp1 == IF had THEN elec[e].LFP ELSE LFP
                   per == elec[e].perCellLFP
                   indexErr == per /\ pi >= n
                   fresh == per /\ ~indexErr
                            /\ elec[loc.electrodes[pi + 1]].CellLFP = 0
                   cl == IF fresh THEN Len(lists) + 1 ELSE elec[e].CellLFP
                   attrErr == per /\ ~indexErr /\ cl = 0
                   lists0 == IF fresh THEN Append(lists, <<>>) ELSE lists
                   lists1 == IF per /\ ~indexErr /\ ~attrErr
                             THEN [lists0 EXCEPT ![cl] = Append(@, LFP)]
                             ELSE lists0
               IN IF shapeErr
                  THEN /\ pc' = "aborted"
                       /\ UNCHANGED <<elec, heap, lists, obs>>
                  ELSE /\ heap' = heap1
                       /\ lists' = lists1
                       /\ obs' = [obs EXCEPT !.merged[e] = Append(@, heap[LFP])]
                       /\ IF indexErr \/ attrErr
                          THEN /\ elec' = [elec EXCEPT ![e].LFP = lfp1,
                                                       ![e].CellLFP = cl]
                               /\ pc' = "aborted"
                          ELSE /\ elec' = [elec EXCEPT
                                             ![e].LFP = lfp1,
                                             ![e].CellLFP = cl,
                                             ![e].hasCoeff = TRUE,
                                             ![e].electrodecoeff =
                                                 loc.dotprodcoeffs[j + 1]]
                               /\ pc' = nxt
    /\ loc' = [loc EXCEPT !.j = @ + 1]
    /\ UNCHANGED <<cfg, runs, args, nrn, cell, usercoeffs, h5, log, geo, syn>>

\* lines 288-289: the container is closed and the driver returns
CloseFile ==
    /\ pc = "close"
    /\ IF loc.to_file
       THEN /\ h5' = [h5 EXCEPT !.open = FALSE, !.closes = @ + 1]
            /\ log' = Append(log, Ev("close", "file", 0, 0, nrn.t, TRUE))
       ELSE UNCHANGED <<h5, log>>
    /\ pc' = "done"
    /\ UNCHANGED <<cfg, runs, args, loc, nrn, cell, usercoeffs, elec, heap, lists, obs, geo, syn>>

(* --------------------------------------------------------- _run_simulation *)
\* which integrator lines 29-33 switch on
CvodeActivePlain(variable_dt, dt) == variable_dt

\* lines 19-57: the engine is initialised and set to tstartms
CallPlain ==
    /\ pc \in {"idle", "done"}
    /\ runs < MaxRuns
    /\ runs' = runs + 1
    /\ args' = [driver |-> "plain", electrode |-> "none", dotprodcoeffs |-> "none"]
    /\ loc' = [LocInit EXCEPT !.variable_dt = cfg.variable_dt]
    /\ LET active == CvodeActivePlain(cfg.variable_dt, cfg.timeres_NEURON)
       IN nrn' = [t |-> cfg.tstartms, dt |-> cfg.timeres_NEURON,
                  cvode_active |-> active, atol_set |-> active]
    /\ log' = <<>>
    /\ pc' = "plain_loop"
    /\ obs' = Snapshot
    /\ UNCHANGED <<cfg, cell, usercoeffs, elec, heap, lists, h5, geo, syn>>

\* lines 59-68: one fadvance() while t < tstopms
PlainAdvance ==
    /\ pc = "plain_loop"
    /\ LoopCondition(nrn.t, cfg.tstopms)
    /\ \E tn \in AdvanceTo(nrn.t) :
         /\ nrn' = [nrn EXCEPT !.t = tn]
         /\ log' = Append(log, Ev("advance", "engine", 0, 0, tn, TRUE))
    /\ UNCHANGED <<cfg, pc, runs, args, loc, cell, usercoeffs, elec, heap, lists, h5, obs, geo, syn>>

\* line 59: the loop is left and the driver returns
PlainReturn ==
    /\ pc = "plain_loop"
    /\ ~LoopCondition(nrn.t, cfg.tstopms)
    /\ pc' = "done"
    /\ UNCHANGED <<cfg, runs, args, loc, nrn, cell, usercoeffs, elec, heap, lists, h5, log, obs, geo, syn>>

(* ------------------------------------------------ _collect_geometry_neuron *)
\* cell.allseclist: per section its nseg and the number of 3-D points n3d()
\* reports while the section is the one iterated over
Morphologies ==
    UNION {[1..L -> [nseg : 1..MaxNseg, n3d : {0, 2}]] : L \in 1..MaxSecs}

RECURSIVE TotalSegs(_)
\* cell.totnsegs: the segments of all sections
TotalSegs(secs) ==
    IF secs = <<>> THEN 0 ELSE Head(secs).nseg + TotalSegs(Tail(secs))

\* an entry np.zeros left untouched
ZeroEntry == <<0, 0>>

\* lines 297-308: the vectors are allocated, zero-filled, and counter is reset
CollectGeometryStart ==
    /\ geo.pc = "idle"
    /\ geo' = [geo EXCEPT
                 !.pc = "sections", !.s = 1, !.counter = 0,
                 !.areavec = [i \in 1..geo.totnsegs |-> ZeroEntry],
                 !.xstartvec = [i \in 1..geo.totnsegs |-> ZeroEntry]]
    /\ UNCHANGED <<cfg, pc, runs, args, loc, nrn, cell, usercoeffs, elec, heap,
                   lists, h5, log, obs, syn>>

\* the guard of line 315 on the section's 3-D points
HasPoints(n3d) == n3d > 0

\* lines 311-355: one section; its segments take the next nseg entries of
\* every vector, entry <<s, k>> being the geometry of segment k of section s
CollectGeometrySection ==
    /\ geo.pc = "sections"
    /\ geo.s <= Len(geo.secs)
    /\ LET sec == geo.secs[geo.s]
           fill(v) == [i \in 1..geo.totnsegs |->
                         IF i > geo.counter /\ i <= geo.counter + sec.nseg
                         THEN <<geo.s, i - geo.counter>> ELSE v[i]]
       IN IF HasPoints(sec.n3d)
          THEN geo' = [geo EXCEPT
                         !.xstartvec = fill(@), !.areavec = fill(@),
                         !.counter = @ + sec.nseg, !.s = @ + 1]
          ELSE geo' = [geo EXCEPT !.s = @ + 1]
    /\ UNCHANGED <<cfg, pc, runs, args, loc, nrn, cell, usercoeffs, elec, heap,
                   lists, h5, log, obs, syn>>

\* lines 357-368: the vectors become attributes of the cell
CollectGeometryReturn ==
    /\ geo.pc = "sections"
    /\ geo.s > Len(geo.secs)
    /\ geo' = [geo EXCEPT
                 !.pc = "returned",
                 !.cell = [area |-> geo.areavec, xstart |-> geo.xstartvec]]
    /\ UNCHANGED <<cfg, pc, runs, args, loc, nrn, cell, usercoeffs, elec, heap,
                   lists, h5, log, obs, syn>>

(* ----------------------------------------------------- pointprocess.Synapse *)
\* the NetStim cell.set_synapse creates for a new synapse, not yet configured
NewNetStim == <<0, 0, 0, 0, 0>>

\* cell.set_synapse(idx, syntype, ...): the synapse and its NetStim are
\* registered with the cell, the NetStim at the end of cell.netstimlist
SetSynapse(reg, idx) == [reg EXCEPT !.netstimlist = Append(@, NewNetStim)]

\* the index cell.set_synapse returns for the synapse it registers
SetSynapseIndex(reg) == Len(reg.netstimlist)

\* <<noise, start, number, interval, seed>> arguments of
\* set_spike_times_w_netstim: the defaults of line 118-119 and one other
NetStimArgs == {<<1, 0, 1000, 10, 1234>>, <<0, 5, 20, 2, 7>>}

\* the sptimes arrays passed to set_spike_times
SpikeTimes == {<<>>, <<10, 15>>}

\* lines 98-111: Synapse.__init__(cell, idx, syntype)
SynapseInit(idx) ==
    /\ Len(syn.objs) < MaxSyn
    /\ LET reg == SetSynapse(syn, idx)
           self == [idx |-> idx, hocidx |-> SetSynapseIndex(syn),
                    hasSptimes |-> FALSE, sptimes |-> <<>>]
       IN syn' = [reg EXCEPT
                    !.objs = Append(@, self),
                    !.synapses = Append(@, Len(syn.objs) + 1),
                    !.synidx = Append(@, idx),
                    !.called = 0, !.callargs = <<>>, !.before = <<>>]
    /\ UNCHANGED <<cfg, pc, runs, args, loc, nrn, cell, usercoeffs, elec, heap,
                   lists, h5, log, geo, obs>>

\* lines 113-116: Synapse.set_spike_times(sptimes) on synapse object s
SetSpikeTimes(s, sptimes) ==
    /\ s \in 1..Len(syn.objs)
    /\ syn.ncalls < MaxSynCalls
    /\ syn' = [syn EXCEPT
                 !.objs[s].hasSptimes = TRUE,
                 !.objs[s].sptimes = sptimes,
                 !.sptimeslist = Append(@, sptimes),
                 !.ncalls = @ + 1,
                 !.called = 0, !.callargs = <<>>, !.before = <<>>]
    /\ UNCHANGED <<cfg, pc, runs, args, loc, nrn, cell, usercoeffs, elec, heap,
                   lists, h5, log, geo, obs>>

\* self.cell.netstimlist[-1] (lines 139-143): the NetStim the call configures
NetStimOf(reg, s) == Len(reg.netstimlist)

\* lines 118-143: Synapse.set_spike_times_w_netstim(noise, start, number,
\* interval, seed) on synapse object s
SetSpikeTimesWNetstim(s, a) ==
    /\ s \in 1..Len(syn.objs)
    /\ syn.ncalls < MaxSynCalls
    /\ syn' = [syn EXCEPT
                 !.netstimlist[NetStimOf(syn, s)] = a,
                 !.ncalls = @ + 1,
                 !.called = s, !.callargs = a, !.before = syn.netstimlist]
    /\ UNCHANGED <<cfg, pc, runs, args, loc, nrn, cell, usercoeffs, elec, heap,
                   lists, h5, log, geo, obs>>

(* --------------------------------------------------------- specification *)
CallAny == \E a \in RunArgs : Call(a[1], a[2])

Next ==
    \/ CallAny
    \/ Probe
    \/ ProbeDone
    \/ InitIntegrator
    \/ Allocate
    \/ LoopIter
    \/ FinalSample
    \/ Finalize
    \/ MergeStep
    \/ CloseFile
    \/ CallPlain
    \/ PlainAdvance
    \/ PlainReturn

Spec == Init /\ [][Next]_vars

\* _collect_geometry_neuron alone, on every morphology within the bounds
InitGeom ==
    /\ cfg = MkCfg(DefaultTiming, TRUE, FALSE, TRUE, FALSE, totnsegs, NoPerCell)
    /\ geo \in {[GeoIdle EXCEPT !.secs = m, !.totnsegs = TotalSegs(m)] :
                   m \in Morphologies}
    /\ syn = SynIdle
    /\ pc = "idle"
    /\ runs = 0
    /\ args = [driver |-> "none", electrode |-> "none", dotprodcoeffs |-> "none"]
    /\ loc = LocInit
    /\ nrn = [t |-> 0, dt |-> 0, cvode_active |-> FALSE, atol_set |-> FALSE]
    /\ cell = [tvec |-> "tvec", hasImem |-> FALSE, imem |-> NoArr,
               hasResults |-> FALSE, dotprodresults |-> <<>>]
    /\ usercoeffs = <<>>
    /\ elec = [e \in Electrodes |->
                 [LFP |-> 0, CellLFP |-> 0, perCellLFP |-> FALSE,
                  hasCoeff |-> FALSE, electrodecoeff |-> NoArr]]
    /\ heap = <<>>
    /\ lists = <<>>
    /\ h5 = [open |-> FALSE, names |-> <<>>, datasets |-> <<>>, opens |-> 0, closes |-> 0]
    /\ log = <<>>
    /\ obs = [elec |-> elec, heap |-> heap, lists |-> lists, cell |-> cell,
              usercoeffs |-> usercoeffs,
              merged |-> [e \in Electrodes |-> <<>>], raised |-> FALSE]

NextGeom ==
    \/ CollectGeometryStart
    \/ CollectGeometrySection
    \/ CollectGeometryReturn

\* the statements a driver executes once it was called
DriverStep ==
    \/ Probe
    \/ ProbeDone
    \/ InitIntegrator
    \/ Allocate
    \/ LoopIter
    \/ FinalSample
    \/ Finalize
    \/ MergeStep
    \/ CloseFile
    \/ PlainAdvance
    \/ PlainReturn

\* one call of either driver on the objects of Init
CallOnce == runs = 0 /\ (CallAny \/ CallPlain)

NextLive == CallOnce \/ DriverStep

\* one call, run to its end: a called driver keeps executing, python runs
\* the next statement
SpecLive == Init /\ [][NextLive]_vars /\ WF_vars(DriverStep)

SpecGeom == InitGeom /\ [][NextGeom]_vars

\* Synapse alone, on every order of constructions and calls within the bounds
InitSyn ==
    /\ cfg = MkCfg(DefaultTiming, TRUE, FALSE, TRUE, FALSE, totnsegs, NoPerCell)
    /\ geo = GeoIdle
    /\ syn = SynIdle
    /\ pc = "idle"
    /\ runs = 0
    /\ args = [driver |-> "none", electrode |-> "none", dotprodcoeffs |-> "none"]
    /\ loc = LocInit
    /\ nrn = [t |-> 0, dt |-> 0, cvode_active |-> FALSE, atol_set |-> FALSE]
    /\ cell = [tvec |-> "tvec", hasImem |-> FALSE, imem |-> NoArr,
               hasResults |-> FALSE, dotprodresults |-> <<>>]
    /\ usercoeffs = <<>>
    /\ elec = [e \in Electrodes |->
                 [LFP |-> 0, CellLFP |-> 0, perCellLFP |-> FALSE,
                  hasCoeff |-> FALSE, electrodecoeff |-> NoArr]]
    /\ heap = <<>>
    /\ lists = <<>>
    /\ h5 = [open |-> FALSE, names |-> <<>>, datasets |-> <<>>, opens |-> 0, closes |-> 0]
    /\ log = <<>>
    /\ obs = [elec |-> elec, heap |-> heap, lists |-> lists, cell |-> cell,
              usercoeffs |-> usercoeffs,
              merged |-> [e \in Electrodes |-> <<>>], raised |-> FALSE]

NextSyn ==
    \/ \E idx \in Segs : SynapseInit(idx)
    \/ \E s \in 1..MaxSyn, sp \in SpikeTimes : SetSpikeTimes(s, sp)
    \/ \E s \in 1..MaxSyn, a \in NetStimArgs : SetSpikeTimesWNetstim(s, a)

SpecSyn == InitSyn /\ [][NextSyn]_vars

(* ------------------------------------------------------------ observables *)
WithElectrode == args.driver = "with_electrode"

Returned == WithElectrode /\ pc = "done"

\* the merging loop of lines 275-286 was left by an exception
MergeRaised == WithElectrode /\ pc = "aborted" /\ loc.j > 0

\* the call is over: it returned, or raised out of the merging loop
RunOver == Returned \/ MergeRaised

\* what el.LFP holds (NoArr: no such attribute)
LFPView(el, h, e) == IF el[e].LFP = 0 THEN NoArr ELSE h[el[e].LFP]

\* what el.CellLFP holds, entry by entry
CellLFPView(el, h, ls, e) ==
    IF el[e].CellLFP = 0 THEN [has |-> FALSE, items |-> <<>>]
    ELSE [has |-> TRUE,
          items |-> [i \in 1..Len(ls[el[e].CellLFP]) |-> h[ls[el[e].CellLFP][i]]]]

\* the array objects el.CellLFP lists
CellLFPEntries(el, ls, e) == IF el[e].CellLFP = 0 THEN <<>> ELSE ls[el[e].CellLFP]

LFPNow(e) == LFPView(elec, heap, e)
LFPBefore(e) == LFPView(obs.elec, obs.heap, e)
CellLFPNow(e) == CellLFPView(elec, heap, lists, e)
CellLFPBefore(e) == CellLFPView(obs.elec, obs.heap, obs.lists, e)

\* result series q (1-based) of the current call
Series(q) == heap[loc.electrodesLFP[q]]

\* how many deposits the log holds for sink, matrix j and column col
DepositsAt(sink, j, col) ==
    Cardinality({i \in 1..Len(log) :
        /\ log[i].ev = "deposit" /\ log[i].sink = sink
        /\ log[i].j = j /\ log[i].col = col})

Floor(a, b) == a \div b

RECURSIVE SumArr(_)
SumArr(as) == IF Len(as) = 1 THEN as[1]
              ELSE AddArr(SumArr(SubSeq(as, 1, Len(as) - 1)), as[Len(as)])

(* ----------------------------------------------------------------- claims *)

\* C1: once the coefficient-building phase is over, every electrode of the
\* electrode argument has the LFP and the CellLFP it had when the driver was
\* called: the same value if it had one, none if it had none.
C1_ProbeLeavesElectrodes ==
    (WithElectrode /\ pc = "integrator") =>
        \A k \in 1..Len(loc.electrodes) :
            /\ LFPNow(loc.electrodes[k]) = LFPBefore(loc.electrodes[k])
            /\ CellLFPNow(loc.electrodes[k]) = CellLFPBefore(loc.electrodes[k])

\* C2: a fixed-step run that returns has given every result series (memory
\* array, file dataset) floor(tstop/dt)+1 columns, no deposit was attempted
\* at an index equal to the column count, and every column 0..floor(tstop/dt)
\* was written exactly once.  Stated for tstop >= 0 and a live read of
\* totnsegs segments, the runs the claim has in mind.
C2_EveryColumnWrittenOnce ==
    (Returned /\ ~nrn.cvode_active /\ cfg.nlive = totnsegs /\ cfg.tstopms >= 0) =>
        /\ ~obs.raised
        /\ cfg.to_memory =>
             \A q \in 1..Len(loc.electrodesLFP) :
                /\ NCols(Series(q)) = Floor(cfg.tstopms, cfg.timeres_NEURON) + 1
                /\ \A c \in 0..Floor(cfg.tstopms, cfg.timeres_NEURON) :
                      DepositsAt("mem", q - 1, c) = 1
        /\ loc.to_file =>
             \A q \in 1..Len(h5.datasets) :
                /\ NCols(h5.datasets[q]) = Floor(cfg.tstopms, cfg.timeres_NEURON) + 1
                /\ \A c \in 0..Floor(cfg.tstopms, cfg.timeres_NEURON) :
                      DepositsAt("file", q - 1, c) = 1

\* C3: in a run with both sinks the in-memory series are what the inputs
\* determine (no column holds storage the run never assigned, so a run with
\* to_memory alone gives the same arrays), every column the memory path wrote
\* is in the file dataset of the same matrix with the same values, and each
\* sample is deposited once, at the same column index, on both paths.
C3_MemoryAndFileAgree ==
    (Returned /\ cfg.to_memory /\ loc.to_file) =>
        \A q \in 1..Len(loc.electrodesLFP) :
            /\ \A c \in 1..NCols(Series(q)) : Defined(Series(q).data[c])
            /\ \A c \in 0..(NCols(Series(q)) - 1) :
                  /\ DepositsAt("mem", q - 1, c) <= 1
                  /\ DepositsAt("file", q - 1, c) = DepositsAt("mem", q - 1, c)
                  /\ DepositsAt("mem", q - 1, c) = 1 =>
                        /\ c < NCols(h5.datasets[q])
                        /\ h5.datasets[q].data[c + 1] = Series(q).data[c + 1]

\* C4: after a run with to_memory, cell.dotprodresults is the first m result
\* series, and series m+i is merged onto electrodes[i] alone: added to the
\* LFP the electrode had when the driver was called, assigned if it had none.
C4_MergePolicy ==
    (Returned /\ cfg.to_memory) =>
        LET m == loc.lendotrodcoeffs0
            n == Len(loc.electrodes)
        IN /\ cell.hasResults
           /\ cell.dotprodresults = SubSeq(loc.electrodesLFP, 1, m)
           /\ \A i \in 1..n :
                 LFPNow(loc.electrodes[i]) =
                     IF obs.elec[loc.electrodes[i]].LFP # 0
                     THEN AddArr(LFPBefore(loc.electrodes[i]), Series(m + i))
                     ELSE Series(m + i)
           /\ \A e \in Electrodes :
                 (\A i \in 1..n : loc.electrodes[i] # e) => LFPNow(e) = LFPBefore(e)

\* C5: when a run with to_memory is over, every electrode of the call whose
\* perCellLFP flag is set has as CellLFP the arrays it listed when the driver
\* was called (none if it had no CellLFP), in the same order, followed by
\* the array of this run's series.
C5_CellLFPGrowsByOne ==
    (RunOver /\ cfg.to_memory) =>
        \A i \in 1..Len(loc.electrodes) :
            elec[loc.electrodes[i]].perCellLFP =>
                /\ elec[loc.electrodes[i]].CellLFP # 0
                /\ lists[elec[loc.electrodes[i]].CellLFP] =
                       Append(CellLFPEntries(obs.elec, obs.lists, loc.electrodes[i]),
                              loc.electrodesLFP[loc.lendotrodcoeffs0 + i])

\* C6: after k >= 2 runs merged onto one perCellLFP electrode, CellLFP[i] is
\* still the series run i deposited, for every i, and LFP is their sum.
C6_CellLFPKeptSeparate ==
    (pc = "done") =>
        \A e \in Electrodes :
            (elec[e].perCellLFP /\ Len(obs.merged[e]) >= 2) =>
                /\ CellLFPNow(e).has
                /\ CellLFPNow(e).items = obs.merged[e]
                /\ LFPNow(e) = SumArr(obs.merged[e])

\* C7: _collect_geometry_neuron returns normally only if no section with
\* segments has zero 3-D points (otherwise it must have raised).
C7_MissingTraceRaises ==
    (geo.pc = "returned") =>
        \A k \in 1..Len(geo.secs) :
            geo.secs[k].nseg > 0 => geo.secs[k].n3d > 0

\* C8: every deposit is computed from currents all read at that step, and
\* the driver gets past the final read only if cell.allseclist enumerated
\* exactly totnsegs segments.
C8_MismatchIsFatal ==
    WithElectrode =>
        /\ \A i \in 1..Len(log) : log[i].ev = "deposit" => log[i].fresh
        /\ pc \in {"finalize", "merge", "close", "done"} => cfg.nlive = totnsegs

\* C9: once a read of the currents or a deposit has raised, the run is
\* aborted and the caller's objects are as they were when the driver was
\* called: no LFP, CellLFP or electrodecoeff changed, no dotprodresults set.
C9_NoPartialResults ==
    (WithElectrode /\ obs.raised) =>
        /\ pc = "aborted"
        /\ cell.hasResults = obs.cell.hasResults
        /\ cell.dotprodresults = obs.cell.dotprodresults
        /\ \A e \in Electrodes :
              /\ LFPNow(e) = LFPBefore(e)
              /\ CellLFPNow(e) = CellLFPBefore(e)
              /\ elec[e].hasCoeff = obs.elec[e].hasCoeff
              /\ elec[e].electrodecoeff = obs.elec[e].electrodecoeff

\* C10: in both drivers, once the integrator is set up, CVode is active and
\* given the tolerance exactly when variable_dt was requested.
C10_VariableDtControlsIntegrator ==
    (args.driver \in {"plain", "with_electrode"}
        /\ pc \notin {"idle", "probe", "integrator"}) =>
        /\ nrn.cvode_active = loc.variable_dt
        /\ nrn.atol_set = loc.variable_dt

\* C11: when h5py cannot be imported, a run requested with or without to_file
\* runs with the file path off: no container is opened, written or closed,
\* the run is not aborted, and with to_memory it returns with every column of
\* every series deposited once by the memory path, as with to_file off.
C11_MissingBackendDegrades ==
    (WithElectrode /\ ~cfg.h5py) =>
        /\ ~loc.to_file
        /\ ~h5.open /\ h5.opens = 0 /\ h5.closes = 0 /\ h5.datasets = <<>>
        /\ \A i \in 1..Len(log) : log[i].sink # "file"
        /\ pc # "aborted"
        /\ (Returned /\ cfg.to_memory) =>
              /\ Len(loc.electrodesLFP) = Len(loc.dotprodcoeffs)
              /\ \A q \in 1..Len(loc.electrodesLFP) :
                    \A c \in 0..(NCols(Series(q)) - 1) :
                        DepositsAt("mem", q - 1, c) = 1

C11_Witness ==
    /\ Returned /\ ~cfg.h5py /\ cfg.to_file /\ cfg.to_memory
    /\ Len(loc.electrodes) = 2
    /\ elec[2].hasCoeff
    /\ NCols(Series(1)) = 3

\* the positions of the log that hold event ev
LogIndex(ev) == {i \in 1..Len(log) : log[i].ev = ev}

\* the call is over: it returned or an exception left it
RunEnded == WithElectrode /\ pc \in {"done", "aborted"}

\* C12: in a run with the file path on, the container is opened once, before
\* the first advance and the first deposit; every file deposit is made while
\* it is open; it is closed at most once, after the last deposit; and when
\* the run is over it has been closed once and is not open.
C12_FileSinkLifecycle ==
    (WithElectrode /\ loc.to_file /\ pc \notin {"probe", "integrator", "allocate"}) =>
        /\ Cardinality(LogIndex("open")) = 1
        /\ \A i \in LogIndex("advance") \cup LogIndex("deposit") :
              \E o \in LogIndex("open") : o < i
        /\ \A i \in LogIndex("deposit") : \A c \in LogIndex("close") : i < c
        /\ Cardinality(LogIndex("close")) <= 1
        /\ h5.open <=> LogIndex("close") = {}
        /\ RunEnded => (Cardinality(LogIndex("close")) = 1 /\ ~h5.open)

\* the potential coefficient source q gives for the membrane currents of
\* engine time t, all of them read at t
ProductAt(q, t) ==
    [r \in 1..loc.dotprodcoeffs[q].rows |->
        SumTo([i \in 1..totnsegs |->
                  loc.dotprodcoeffs[q].data[i][r] * (IMembrane(t, i) * AreaFactor(i))],
              totnsegs)]

\* C13: a run with the file path on that returns leaves in the container
\* exactly the datasets electrode000 .. electrode(c-1), c the number of
\* coefficient sources; dataset j holds, in every column deposited, the
\* product of source j; and every dataset is contacts x floor(tstop/dt)+1,
\* the shape of the in-memory series of the same source.
C13_PersistentLayout ==
    (Returned /\ loc.to_file) =>
        /\ Len(h5.names) = Len(loc.dotprodcoeffs)
        /\ Len(h5.datasets) = Len(loc.dotprodcoeffs)
        /\ \A q \in 1..Len(loc.dotprodcoeffs) :
              /\ h5.names[q] = <<"electrode", 0, 0, q - 1>>
              /\ h5.datasets[q].rows = loc.dotprodcoeffs[q].rows
              /\ NCols(h5.datasets[q]) = Floor(cfg.tstopms, cfg.timeres_NEURON) + 1
              /\ cfg.to_memory => SameShape(h5.datasets[q], Series(q))
              /\ \A i \in LogIndex("deposit") :
                    (log[i].sink = "file" /\ log[i].j = q - 1 /\ log[i].fresh) =>
                        h5.datasets[q].data[log[i].col + 1] = ProductAt(q, log[i].t)

\* C14: when a run given electrode objects returns, with to_memory or
\* without, every electrode of the call carries as electrodecoeff the matrix
\* this run's probe built from that electrode.
C14_CoefficientWriteBack ==
    (Returned /\ ~loc.electrodesNone) =>
        \A i \in 1..Len(loc.electrodes) :
            /\ elec[loc.electrodes[i]].hasCoeff
            /\ elec[loc.electrodes[i]].electrodecoeff =
                   CalcLfp(loc.electrodes[i], Eye(totnsegs))

\* C15: set_spike_times_w_netstim called on synapse S leaves the NetStim
\* registered at S's creation configured with the arguments of the call,
\* and every other NetStim of the cell as it was before the call.
C15_NetStimOfItsSynapse ==
    (syn.called # 0) =>
        /\ syn.netstimlist[syn.called] = syn.callargs
        /\ \A k \in 1..Len(syn.netstimlist) :
              k # syn.called => syn.netstimlist[k] = syn.before[k]

\* C16: a run leaves the caller's list of ad-hoc matrices as it was when the
\* driver was called, and a run with to_memory that was passed the list
\* returns as many series in cell.dotprodresults as the caller put in the
\* list, in the first run and in every later run with the same list.
C16_CoefficientInputsReusable ==
    WithElectrode =>
        /\ usercoeffs = obs.usercoeffs
        /\ (Returned /\ cfg.to_memory /\ args.dotprodcoeffs = "list") =>
              /\ usercoeffs = <<AdHocMatrix(1), AdHocMatrix(2)>>
              /\ Len(cell.dotprodresults) = Len(<<AdHocMatrix(1), AdHocMatrix(2)>>)

\* C17: calc_lfp is called with cell.imem the totnsegs x totnsegs identity;
\* once probing is over it was called exactly once on every electrode
\* supplied and the matrix kept for electrode i is its output on the
\* identity; and every call precedes the engine's initialisation, every
\* advance and every deposit.
C17_OneProbePerElectrodeBeforeStepping ==
    WithElectrode =>
        /\ \A i \in LogIndex("calc_lfp") :
              /\ log[i].imem = Eye(totnsegs)
              /\ \A k \in LogIndex("advance") \cup LogIndex("deposit")
                          \cup LogIndex("open") : i < k
        /\ pc = "probe" => LogIndex("advance") \cup LogIndex("deposit") = {}
        /\ pc # "probe" =>
              /\ Cardinality(LogIndex("calc_lfp")) = Len(loc.electrodes)
              /\ \A i \in 1..Len(loc.electrodes) :
                    /\ Cardinality({k \in LogIndex("calc_lfp") :
                                       log[k].j = loc.electrodes[i]}) = 1
                    /\ loc.dotprodcoeffs[loc.lendotrodcoeffs0 + i] =
                           CalcLfp(loc.electrodes[i], Eye(totnsegs))

C17_Witness ==
    /\ Returned /\ runs = 2
    /\ Len(loc.electrodes) = 2
    /\ Cardinality(LogIndex("calc_lfp")) = 2
    /\ Cardinality(LogIndex("advance")) >= 2
    /\ Cardinality(LogIndex("deposit")) >= 2

\* the positions of the log where the first matrix was deposited to sink
DepositIdx(sink) ==
    {i \in LogIndex("deposit") : log[i].sink = sink /\ log[i].j = 0}

\* the sinks a run with at least one coefficient matrix deposits to
Sinks ==
    IF Len(loc.dotprodcoeffs) = 0 THEN {}
    ELSE (IF cfg.to_memory THEN {"mem"} ELSE {})
         \cup (IF loc.to_file THEN {"file"} ELSE {})

\* the run has left the stepping loop and taken the final sample
PastFinalSample == pc \in {"finalize", "merge", "close", "done"}

\* C18: on every sink, the state an advance leaves at t >= 0 is deposited
\* exactly once before the next advance, or before finalization if it is the
\* last advance; no engine time is deposited twice; and the deposits land
\* at columns 0, 1, 2, ... in the order they are made.
C18_EveryAdvanceSampledOnce ==
    WithElectrode =>
        \A s \in Sinks :
            /\ \A i \in LogIndex("advance") :
                  LET later == {k \in LogIndex("advance") : k > i}
                      upto == IF later = {} THEN Len(log) + 1
                              ELSE CHOOSE k \in later : \A k2 \in later : k <= k2
                  IN (log[i].t >= 0 /\ (later # {} \/ PastFinalSample)) =>
                        Cardinality({d \in DepositIdx(s) :
                                        i < d /\ d < upto /\ log[d].t = log[i].t}) = 1
            /\ \A d1 \in DepositIdx(s), d2 \in DepositIdx(s) :
                  d1 < d2 => log[d1].t < log[d2].t
            /\ \A d \in DepositIdx(s) :
                  log[d].col = Cardinality({d1 \in DepositIdx(s) : d1 < d})

\* C19: no sample is deposited for an engine time t < 0, tstep counts the
\* advances issued from a time t >= 0 and no other, and what column 0 holds
\* was sampled at the first engine time t >= 0 the run reached.
C19_SamplingOnlyAtRetainedSteps ==
    (WithElectrode /\ pc \in {"loop", "finalize", "merge", "close", "done"}) =>
        /\ \A d \in LogIndex("deposit") : log[d].t >= 0
        /\ loc.tstep = Cardinality({i \in LogIndex("advance") :
                                       log[i].t - nrn.dt >= 0})
        /\ \A d \in LogIndex("deposit") :
              log[d].col = 0 =>
                  /\ cfg.tstartms >= 0 => log[d].t = cfg.tstartms
                  /\ \A i \in LogIndex("advance") :
                        (i < d /\ log[i].t >= 0) => log[i].t = log[d].t

\* a driver is in its stepping loop, with the fixed-step integrator
InFixedStepLoop == pc \in {"loop", "plain_loop"} /\ ~nrn.cvode_active

\* the call is over: the driver returned, or an exception left it
CallOver == pc \in {"done", "aborted"}

\* what holds of the advances of a fixed-step run at every moment
C20_ExitCondition ==
    (args.driver \in {"plain", "with_electrode"}
        /\ pc \notin {"probe", "integrator"} /\ ~nrn.cvode_active) =>
        /\ \A i \in LogIndex("advance") : log[i].t - nrn.dt < cfg.tstopms
        /\ (PastFinalSample \/ (args.driver = "plain" /\ pc = "done")) =>
              nrn.t >= cfg.tstopms
        /\ cfg.tstartms >= cfg.tstopms => LogIndex("advance") = {}
        /\ pc = "aborted" => (obs.raised \/ loc.j > 0)

RECURSIVE LiveReadOrder(_, _)
\* the <<section, segment>> pair the live read "for sec in cell.allseclist:
\* for seg in sec: imem[i] = seg.i_membrane" stores at each index, for the
\* sections from number s on
LiveReadOrder(secs, s) ==
    IF s > Len(secs) THEN <<>>
    ELSE [k \in 1..secs[s].nseg |-> <<s, k>>] \o LiveReadOrder(secs, s + 1)

\* C21: when _collect_geometry_neuron has returned, entry i of every
\* geometry vector describes the <<section, segment>> pair whose current
\* the live read stores at index i, for all totnsegs entries.
C21_GeometryAlignedWithLiveRead ==
    (geo.pc = "returned") =>
        /\ Len(LiveReadOrder(geo.secs, 1)) = geo.totnsegs
        /\ \A i \in 1..geo.totnsegs :
              /\ geo.cell.area[i] = LiveReadOrder(geo.secs, 1)[i]
              /\ geo.cell.xstart[i] = LiveReadOrder(geo.secs, 1)[i]

\* C22: every deposit, in the loop and final, is the product of the
\* coefficient matrix with currents that were all read at the engine time of
\* that deposit and scaled by the area factor once: the column it wrote
\* holds no value and no scaling left in the buffer by an earlier step.
C22_BufferReuseUnobservable ==
    (WithElectrode /\ pc \in {"loop", "finalize"}) =>
        \A d \in LogIndex("deposit") :
            /\ log[d].fresh
            /\ log[d].sink = "mem" =>
                  Series(log[d].j + 1).data[log[d].col + 1] =
                      ProductAt(log[d].j + 1, log[d].t)
            /\ log[d].sink = "file" =>
                  h5.datasets[log[d].j + 1].data[log[d].col + 1] =
                      ProductAt(log[d].j + 1, log[d].t)

\* C23: once the coefficient-building phase is over, cell.tvec is the object
\* it was when the driver was called and cell.imem has the value it had
\* then, or is absent if it was absent; the identity matrix and the probing
\* time vector are not on the cell while the engine is stepped.
C23_ProbeLeavesCell ==
    (WithElectrode /\ pc # "probe") =>
        /\ cell.tvec = obs.cell.tvec
        /\ cell.tvec = "tvec"
        /\ cell.hasImem = obs.cell.hasImem
        /\ cell.imem = obs.cell.imem
        /\ cell.hasImem = cfg.hasImem
        /\ cell.imem # Eye(totnsegs)

C23_Witness ==
    /\ WithElectrode /\ pc = "loop" /\ runs = 2
    /\ Len(loc.electrodes) = 2
    /\ cell.hasImem /\ cell.imem = RecordedImem
    /\ Cardinality(LogIndex("calc_lfp")) = 2

\* C24: cell.synapses and cell.synidx have one entry per Synapse created, in
\* creation order, with cell.synidx[k] the idx of cell.synapses[k]; and once
\* set_spike_times was called once on every synapse, cell.sptimeslist has one
\* entry per synapse and entry k is the array registered for
\* cell.synapses[k].
C24_RegistryAligned ==
    /\ Len(syn.synapses) = Len(syn.objs)
    /\ Len(syn.synidx) = Len(syn.synapses)
    /\ \A k \in 1..Len(syn.synapses) :
          /\ syn.synapses[k] = k
          /\ syn.synidx[k] = syn.objs[syn.synapses[k]].idx
    /\ ((\A s \in 1..Len(syn.objs) : syn.objs[s].hasSptimes)
            /\ Len(syn.sptimeslist) = Len(syn.objs)) =>
          \A k \in 1..Len(syn.synapses) :
              syn.sptimeslist[k] = syn.objs[syn.synapses[k]].sptimes

====
